---- MODULE Spec2Model ----
(***************************************************************************)
(* Order endpoints of the stockfighter API client (api/order.go) and the   *)
(* example program that drives them.  One caller goroutine runs order      *)
(* operations on a shared Instance while a second goroutine changes the    *)
(* Instance's configuration under the write lock.                          *)
(***************************************************************************)
EXTENDS Integers, Sequences, FiniteSets, TLC

\* ---------------------------------------------------------------- bounds
MaxWrites == 1     \* configuration writes made by the writer goroutine
MaxID == 1         \* largest order id used as an argument or sent by the venue
MaxPrice == 1      \* largest price used as an argument

\* ------------------------------------------------------------- constants
Limit == "limit"
Market == "market"
FillOrKill == "fill-or-kill"
ImmediateOrCancel == "immediate-or-cancel"
Buy == "buy"
Sell == "sell"
apiKey == ""

orderType == {Limit, Market, FillOrKill, ImmediateOrCancel}
orderDirection == {Buy, Sell}

\* ------------------------------------------------------------ error values
\* A Go error value; Nil is the nil error.
Nil == [kind |-> "nil", msg |-> "", status |-> 0]
TransportErr == [kind |-> "http", msg |-> "transport", status |-> 0]
RedirectErr == [kind |-> "http", msg |-> "redirect", status |-> 0]
ReadErr == [kind |-> "json", msg |-> "read", status |-> 0]
SyntaxErr == [kind |-> "json", msg |-> "syntax", status |-> 0]
TypeErr == [kind |-> "json", msg |-> "type", status |-> 0]

\* apiError(v.Error, res.Status): the error built from the venue's message.
apiError(msg, status) == [kind |-> "api", msg |-> msg, status |-> status]

\* Faulty variant of setErr: the last error wins and nil clears.
setErr_overwrite(cur, e) == e

\* Faulty variant of setErr: every non-nil error replaces the recorded one.
setErr_last(cur, e) == IF e # Nil THEN e ELSE cur

\* i.setErr(e): the accumulator after recording e; nil is ignored and the
\* first error recorded is kept.
setErr(cur, e) == IF e # Nil /\ cur = Nil THEN e ELSE cur

\* The accumulator after a run of setErr calls, in order.
RECURSIVE SetErrs(_, _)
SetErrs(cur, es) ==
    IF es = <<>> THEN cur ELSE SetErrs(setErr(cur, Head(es)), Tail(es))

\* How many of those setErr calls changed the accumulator.
RECURSIVE Changes(_, _)
Changes(cur, es) ==
    IF es = <<>> THEN 0
    ELSE (IF setErr(cur, Head(es)) # cur THEN 1 ELSE 0)
         + Changes(setErr(cur, Head(es)), Tail(es))

\* ------------------------------------------------------------ data model
\* Order, reduced to the fields the results are compared on.
ZeroOrder == [ID |-> 0, Fills |-> <<>>, Open |-> FALSE]
Order(id) == [ID |-> id, Fills |-> <<1>>, Open |-> TRUE]

\* A response body.  readable: the body can still be read (not closed);
\* syntaxOk: it is a JSON object; bad: the field whose JSON type does not
\* match the Go field it decodes into ("none" when all match).
EmptyBody ==
    [readable |-> TRUE, syntaxOk |-> TRUE, bad |-> "none",
     id |-> 0, open |-> FALSE, fills |-> <<>>, error |-> "", orders |-> <<>>]
OrderBody(id) == [EmptyBody EXCEPT !.id = id, !.open = TRUE, !.fills = <<1>>]
ErrorBody == [EmptyBody EXCEPT !.error = "e1"]
OrdersBody == [EmptyBody EXCEPT !.orders = <<Order(1)>>]
GarbageBody == [EmptyBody EXCEPT !.syntaxOk = FALSE]
BadIdBody == [OrderBody(1) EXCEPT !.bad = "id"]
BadErrorBody == [ErrorBody EXCEPT !.bad = "error"]
BadOrdersBody == [OrdersBody EXCEPT !.bad = "orders"]
ClosedBody == [EmptyBody EXCEPT !.readable = FALSE]

Bodies ==
    {EmptyBody, ErrorBody, OrdersBody, GarbageBody, BadIdBody, BadErrorBody,
     BadOrdersBody} \cup {OrderBody(n) : n \in 1..MaxID}

\* dec.Decode(&v): the error returned when decoding body into a struct
\* whose typed field is `field`.
DecodeErr(body, field) ==
    IF ~body.readable THEN ReadErr
    ELSE IF ~body.syntaxOk THEN SyntaxErr
    ELSE IF body.bad = field THEN TypeErr
    ELSE Nil

\* dec.Decode(&v) into an Order: fields present and well typed are stored,
\* also when another field raises a type error.
DecodeOrder(body, v) ==
    IF ~body.readable \/ ~body.syntaxOk THEN v
    ELSE [ID |-> IF body.bad = "id" THEN v.ID ELSE body.id,
          Fills |-> body.fills, Open |-> body.open]

\* dec.Decode(&v) into an errorResult: v.Error.
DecodeErrorResult(body) ==
    IF ~body.readable \/ ~body.syntaxOk \/ body.bad = "error" THEN ""
    ELSE body.error

\* dec.Decode(&v) into an allOrdersStatusResult: v.Orders.
DecodeAllOrders(body) ==
    IF ~body.readable \/ ~body.syntaxOk \/ body.bad = "orders" THEN <<>>
    ELSE body.orders

\* No response (a nil *http.Response).
NoRes == [StatusCode |-> 0, Body |-> ClosedBody, present |-> FALSE]
Response(s, b) == [StatusCode |-> s, Body |-> b, present |-> TRUE]

\* i.c.Do(req): a response without error; a transport error without a
\* response; or, when the redirect policy stops the request, both the last
\* redirect response (body already closed) and an error.
DoResults ==
    {[res |-> Response(s, b), httpErr |-> Nil] : s \in {200, 401}, b \in Bodies}
    \cup {[res |-> NoRes, httpErr |-> TransportErr]}
    \cup {[res |-> Response(302, ClosedBody), httpErr |-> RedirectErr]}

\* ------------------------------------------------------------------ state
VARIABLES
    cfg,      \* Instance configuration: account, venue, symbol, h (API key header)
    cfgVer,   \* number of configuration writes so far
    mu,       \* the Instance's RWMutex
    err,      \* i.err, the error accumulator read by Err()
    pc,       \* position of the caller goroutine inside an order operation
    call,     \* the running operation: arguments, locals, result
    wpc,      \* position of the configuration writer goroutine
    wjob,     \* the field and value the writer is setting
    mpc,      \* position of the example program's main ("off": not running)
    main      \* main's locals: quote, order, Err() seen, calls made

vars == <<cfg, cfgVer, mu, err, pc, call, wpc, wjob, mpc, main>>

Accounts == {"EXB123456", "ACC2"}
Venues == {"TESTEX", "VEN2"}
Symbols == {"FOOBAR", "SYM2"}
Keys == {apiKey, "key2"}
FieldValues(f) ==
    CASE f = "account" -> Accounts
      [] f = "venue" -> Venues
      [] f = "symbol" -> Symbols
      [] f = "h" -> Keys

Ops == {"NewOrder", "CancelOrder", "OrderStatus", "AccountOrderStatus",
        "StockOrderStatus"}

\* The configuration fields an operation reads between RLock and RUnlock,
\* in evaluation order, with the part of the request each one goes into.
Reads(op) ==
    CASE op = "NewOrder" ->
           << <<"body", "account">>, <<"body", "venue">>, <<"body", "symbol">>,
              <<"url", "venue">>, <<"url", "symbol">> >>
      [] op \in {"CancelOrder", "OrderStatus"} ->
           << <<"url", "venue">>, <<"url", "symbol">> >>
      [] op = "AccountOrderStatus" ->
           << <<"url", "venue">>, <<"url", "account">> >>
      [] op = "StockOrderStatus" ->
           << <<"url", "venue">>, <<"url", "account">>, <<"url", "symbol">> >>

\* Locals of an operation that has just been called.
NewCall(op, id, price, quantity, direction, type) ==
    [op |-> op, ID |-> id, price |-> price, quantity |-> quantity,
     direction |-> direction, orderType |-> type,
     got |-> <<>>, hdr |-> apiKey, res |-> NoRes, httpErr |-> Nil,
     v |-> ZeroOrder, orders |-> <<>>,
     err0 |-> err, passed |-> <<>>, nchg |-> 0]

NoCall == [NewCall("none", 0, 0, 0, Buy, Limit) EXCEPT !.err0 = Nil]

NoMain == [lastPrice |-> 0, order |-> ZeroOrder, seen |-> Nil, calls |-> <<>>]

\* NewTestInstance(): test configuration, unlocked mutex, no error.
Init ==
    /\ cfg = [account |-> "EXB123456", venue |-> "TESTEX", symbol |-> "FOOBAR",
              h |-> apiKey]
    /\ cfgVer = 0
    /\ mu = [readers |-> 0, writer |-> FALSE, pending |-> FALSE]
    /\ err = Nil
    /\ pc = "idle"
    /\ call = NoCall
    /\ wpc = "idle"
    /\ wjob = <<"h", apiKey>>
    /\ mpc = "off"
    /\ main = NoMain

\* A panic ends the whole process.
Running == pc # "panic"

\* ------------------------------------------------------- order operations
Quantities == {100}

\* Entry of each operation, called by a client goroutine.
NewOrder_Call ==
    /\ Running /\ mpc = "off" /\ pc = "idle"
    /\ \E price \in 0..MaxPrice, quantity \in Quantities,
          direction \in orderDirection, type \in orderType :
          call' = NewCall("NewOrder", 0, price, quantity, direction, type)
    /\ pc' = "rlock"
    /\ UNCHANGED <<cfg, cfgVer, mu, err, wpc, wjob, mpc, main>>

CancelOrder_Call ==
    /\ Running /\ mpc = "off" /\ pc = "idle"
    /\ \E ID \in 0..MaxID : call' = NewCall("CancelOrder", ID, 0, 0, Buy, Limit)
    /\ pc' = "rlock"
    /\ UNCHANGED <<cfg, cfgVer, mu, err, wpc, wjob, mpc, main>>

OrderStatus_Call ==
    /\ Running /\ mpc = "off" /\ pc = "idle"
    /\ \E ID \in 0..MaxID : call' = NewCall("OrderStatus", ID, 0, 0, Buy, Limit)
    /\ pc' = "rlock"
    /\ UNCHANGED <<cfg, cfgVer, mu, err, wpc, wjob, mpc, main>>

AccountOrderStatus_Call ==
    /\ Running /\ mpc = "off" /\ pc = "idle"
    /\ call' = NewCall("AccountOrderStatus", 0, 0, 0, Buy, Limit)
    /\ pc' = "rlock"
    /\ UNCHANGED <<cfg, cfgVer, mu, err, wpc, wjob, mpc, main>>

StockOrderStatus_Call ==
    /\ Running /\ mpc = "off" /\ pc = "idle"
    /\ call' = NewCall("StockOrderStatus", 0, 0, 0, Buy, Limit)
    /\ pc' = "rlock"
    /\ UNCHANGED <<cfg, cfgVer, mu, err, wpc, wjob, mpc, main>>

\* Faulty variant of RLock: readers do not wait for a writer.
RLock_nowait ==
    /\ Running /\ pc = "rlock"
    /\ mu' = [mu EXCEPT !.readers = @ + 1]
    /\ pc' = "read"
    /\ UNCHANGED <<cfg, cfgVer, err, call, wpc, wjob, mpc, main>>

\* i.RLock(): waits while a writer holds the mutex or is waiting for it.
RLock ==
    /\ Running /\ pc = "rlock"
    /\ ~mu.writer /\ ~mu.pending
    /\ mu' = [mu EXCEPT !.readers = @ + 1]
    /\ pc' = "read"
    /\ UNCHANGED <<cfg, cfgVer, err, call, wpc, wjob, mpc, main>>

\* One read of a configuration field while building the body or the URL.
ReadField ==
    /\ Running /\ pc = "read"
    /\ Len(call.got) < Len(Reads(call.op))
    /\ LET k == Len(call.got) + 1
           r == Reads(call.op)[k]
       IN /\ call' = [call EXCEPT !.got =
                         Append(@, [dest |-> r[1], field |-> r[2],
                                    val |-> cfg[r[2]], ver |-> cfgVer])]
          /\ pc' = IF call.op = "NewOrder" /\ k = 3 THEN "marshal" ELSE "read"
    /\ UNCHANGED <<cfg, cfgVer, mu, err, wpc, wjob, mpc, main>>

\* NewOrder: json.Marshal of the orderRequest (strings and ints: it cannot
\* fail) and i.setErr(jsonErr), still under the read lock.
Marshal ==
    /\ Running /\ pc = "marshal"
    /\ err' = setErr(err, Nil)
    /\ call' = [call EXCEPT !.passed = Append(@, Nil),
                            !.nchg = @ + Changes(err, <<Nil>>)]
    /\ pc' = "read"
    /\ UNCHANGED <<cfg, cfgVer, mu, wpc, wjob, mpc, main>>

\* Faulty variant of RUnlock: the read lock is kept.
RUnlock_keep ==
    /\ Running /\ pc = "read"
    /\ Len(call.got) = Len(Reads(call.op))
    /\ pc' = "hdr"
    /\ UNCHANGED <<cfg, cfgVer, mu, err, call, wpc, wjob, mpc, main>>

\* i.RUnlock(), once the URL is built.
RUnlock ==
    /\ Running /\ pc = "read"
    /\ Len(call.got) = Len(Reads(call.op))
    /\ mu' = [mu EXCEPT !.readers = @ - 1]
    /\ pc' = "hdr"
    /\ UNCHANGED <<cfg, cfgVer, err, call, wpc, wjob, mpc, main>>

\* req.Header = i.h, after RUnlock.  A read that races with a write of h
\* sees the old or the new value.
SetHeader ==
    /\ Running /\ pc = "hdr"
    /\ \E k \in (IF wpc = "write" /\ wjob[1] = "h" THEN {cfg.h, wjob[2]}
                 ELSE {cfg.h}) :
          call' = [call EXCEPT !.hdr = k]
    /\ pc' = "do"
    /\ UNCHANGED <<cfg, cfgVer, mu, err, wpc, wjob, mpc, main>>

\* res, httpErr := i.c.Do(req).  The order arguments went out in the request
\* body and are not used by the operation again.
Do ==
    /\ Running /\ pc = "do"
    /\ \E r \in DoResults :
          call' = [call EXCEPT !.res = r.res, !.httpErr = r.httpErr,
                               !.price = 0, !.quantity = 0,
                               !.direction = Buy, !.orderType = Limit]
    /\ pc' = "resp"
    /\ UNCHANGED <<cfg, cfgVer, mu, err, wpc, wjob, mpc, main>>

\* ------------------------------------------------------ response handling
\* Faulty variant of NewOrderResult: the API error is not recorded.
NewOrderResult_noapi(c) ==
    IF ~c.res.present
    THEN [panic |-> TRUE, errs |-> <<c.httpErr>>, v |-> c.v, orders |-> <<>>]
    ELSE IF c.res.StatusCode = 200
    THEN [panic |-> FALSE,
          errs |-> <<c.httpErr, DecodeErr(c.res.Body, "id")>>,
          v |-> DecodeOrder(c.res.Body, c.v), orders |-> <<>>]
    ELSE [panic |-> FALSE,
          errs |-> <<c.httpErr, DecodeErr(c.res.Body, "error")>>,
          v |-> c.v, orders |-> <<>>]

\* NewOrder, from i.setErr(httpErr) to return: the errors passed to setErr in
\* order, the returned Order, and whether res.Body was read on a nil res.
NewOrderResult(c) ==
    IF ~c.res.present
    THEN [panic |-> TRUE, errs |-> <<c.httpErr>>, v |-> c.v, orders |-> <<>>]
    ELSE IF c.res.StatusCode = 200
    THEN [panic |-> FALSE,
          errs |-> <<c.httpErr, DecodeErr(c.res.Body, "id")>>,
          v |-> DecodeOrder(c.res.Body, c.v), orders |-> <<>>]
    ELSE [panic |-> FALSE,
          errs |-> <<c.httpErr,
                     apiError(DecodeErrorResult(c.res.Body), c.res.StatusCode),
                     DecodeErr(c.res.Body, "error")>>,
          v |-> c.v, orders |-> <<>>]

\* CancelOrder, from i.setErr(httpErr) to return: the errors passed to setErr in
\* order, the returned Order, and whether res.Body was read on a nil res.
CancelOrderResult(c) ==
    IF ~c.res.present
    THEN [panic |-> TRUE, errs |-> <<c.httpErr>>, v |-> c.v, orders |-> <<>>]
    ELSE IF c.res.StatusCode = 200
    THEN [panic |-> FALSE,
          errs |-> <<c.httpErr, DecodeErr(c.res.Body, "id")>>,
          v |-> DecodeOrder(c.res.Body, c.v), orders |-> <<>>]
    ELSE [panic |-> FALSE,
          errs |-> <<c.httpErr,
                     apiError(DecodeErrorResult(c.res.Body), c.res.StatusCode),
                     DecodeErr(c.res.Body, "error")>>,
          v |-> c.v, orders |-> <<>>]

\* Faulty variant of OrderStatusResult: the error body is decoded into the
\* returned Order instead of a local errorResult.
OrderStatusResult_noshadow(c) ==
    IF ~c.res.present
    THEN [panic |-> TRUE, errs |-> <<c.httpErr>>, v |-> c.v, orders |-> <<>>]
    ELSE [panic |-> FALSE,
          errs |-> IF c.res.StatusCode = 200
                   THEN <<c.httpErr, DecodeErr(c.res.Body, "id")>>
                   ELSE <<c.httpErr,
                          apiError(DecodeErrorResult(c.res.Body), c.res.StatusCode),
                          DecodeErr(c.res.Body, "id")>>,
          v |-> DecodeOrder(c.res.Body, c.v), orders |-> <<>>]

\* OrderStatus, from i.setErr(httpErr) to return: the errors passed to setErr in
\* order, the returned Order, and whether res.Body was read on a nil res.
OrderStatusResult(c) ==
    IF ~c.res.present
    THEN [panic |-> TRUE, errs |-> <<c.httpErr>>, v |-> c.v, orders |-> <<>>]
    ELSE IF c.res.StatusCode = 200
    THEN [panic |-> FALSE,
          errs |-> <<c.httpErr, DecodeErr(c.res.Body, "id")>>,
          v |-> DecodeOrder(c.res.Body, c.v), orders |-> <<>>]
    ELSE [panic |-> FALSE,
          errs |-> <<c.httpErr,
                     apiError(DecodeErrorResult(c.res.Body), c.res.StatusCode),
                     DecodeErr(c.res.Body, "error")>>,
          v |-> c.v, orders |-> <<>>]

\* AccountOrderStatus, from i.setErr(httpErr) to return.  On 200 it returns v.Orders
\* right after Decode, before any setErr(jsonErr).
AccountOrderStatusResult(c) ==
    IF ~c.res.present
    THEN [panic |-> TRUE, errs |-> <<c.httpErr>>, v |-> c.v, orders |-> <<>>]
    ELSE IF c.res.StatusCode = 200
    THEN [panic |-> FALSE, errs |-> <<c.httpErr>>,
          v |-> c.v, orders |-> DecodeAllOrders(c.res.Body)]
    ELSE [panic |-> FALSE,
          errs |-> <<c.httpErr,
                     apiError(DecodeErrorResult(c.res.Body), c.res.StatusCode),
                     DecodeErr(c.res.Body, "error")>>,
          v |-> c.v, orders |-> <<>>]

\* StockOrderStatus, from i.setErr(httpErr) to return.  On 200 it returns v.Orders
\* right after Decode, before any setErr(jsonErr).
StockOrderStatusResult(c) ==
    IF ~c.res.present
    THEN [panic |-> TRUE, errs |-> <<c.httpErr>>, v |-> c.v, orders |-> <<>>]
    ELSE IF c.res.StatusCode = 200
    THEN [panic |-> FALSE, errs |-> <<c.httpErr>>,
          v |-> c.v, orders |-> DecodeAllOrders(c.res.Body)]
    ELSE [panic |-> FALSE,
          errs |-> <<c.httpErr,
                     apiError(DecodeErrorResult(c.res.Body), c.res.StatusCode),
                     DecodeErr(c.res.Body, "error")>>,
          v |-> c.v, orders |-> <<>>]

\* The rest of an operation after Do, given what it computes: every setErr
\* call is applied to the accumulator, then the operation returns or panics.
Finish(r) ==
    /\ err' = SetErrs(err, r.errs)
    /\ call' = [call EXCEPT !.v = r.v, !.orders = r.orders,
                            !.passed = @ \o r.errs,
                            !.nchg = @ + Changes(err, r.errs)]
    /\ pc' = IF r.panic THEN "panic" ELSE "ret"
    /\ UNCHANGED <<cfg, cfgVer, mu, wpc, wjob, mpc, main>>

NewOrder_Finish ==
    /\ Running /\ pc = "resp" /\ call.op = "NewOrder"
    /\ Finish(NewOrderResult(call))

CancelOrder_Finish ==
    /\ Running /\ pc = "resp" /\ call.op = "CancelOrder"
    /\ Finish(CancelOrderResult(call))

OrderStatus_Finish ==
    /\ Running /\ pc = "resp" /\ call.op = "OrderStatus"
    /\ Finish(OrderStatusResult(call))

AccountOrderStatus_Finish ==
    /\ Running /\ pc = "resp" /\ call.op = "AccountOrderStatus"
    /\ Finish(AccountOrderStatusResult(call))

StockOrderStatus_Finish ==
    /\ Running /\ pc = "resp" /\ call.op = "StockOrderStatus"
    /\ Finish(StockOrderStatusResult(call))

\* The client goroutine takes the result and is free to call again.
Return ==
    /\ Running /\ mpc = "off" /\ pc = "ret"
    /\ pc' = "idle"
    /\ call' = NoCall
    /\ UNCHANGED <<cfg, cfgVer, mu, err, wpc, wjob, mpc, main>>

\* ------------------------------------------------- configuration writer
\* A setter (SetAPIKey and the like) is called: i.Lock() is requested.
Set_Call ==
    /\ Running /\ mpc = "off" /\ wpc = "idle"
    /\ cfgVer < MaxWrites
    /\ \E f \in {"account", "venue", "symbol", "h"} :
          \E x \in FieldValues(f) : wjob' = <<f, x>>
    /\ mu' = [mu EXCEPT !.pending = TRUE]
    /\ wpc' = "lock"
    /\ UNCHANGED <<cfg, cfgVer, err, pc, call, mpc, main>>

\* i.Lock() returns once no reader holds the mutex.
Set_Lock ==
    /\ Running /\ wpc = "lock"
    /\ mu.readers = 0 /\ ~mu.writer
    /\ mu' = [mu EXCEPT !.writer = TRUE, !.pending = FALSE]
    /\ wpc' = "write"
    /\ UNCHANGED <<cfg, cfgVer, err, pc, call, wjob, mpc, main>>

\* The field is assigned.
Set_Write ==
    /\ Running /\ wpc = "write"
    /\ cfg' = [cfg EXCEPT ![wjob[1]] = wjob[2]]
    /\ cfgVer' = cfgVer + 1
    /\ wpc' = "unlock"
    /\ UNCHANGED <<mu, err, pc, call, wjob, mpc, main>>

\* i.Unlock()
Set_Unlock ==
    /\ Running /\ wpc = "unlock"
    /\ mu' = [mu EXCEPT !.writer = FALSE]
    /\ wpc' = "idle"
    /\ wjob' = <<"h", apiKey>>
    /\ UNCHANGED <<cfg, cfgVer, err, pc, call, mpc, main>>

Next ==
    \/ NewOrder_Call \/ CancelOrder_Call \/ OrderStatus_Call
    \/ AccountOrderStatus_Call \/ StockOrderStatus_Call
    \/ RLock \/ ReadField \/ Marshal \/ RUnlock \/ SetHeader \/ Do
    \/ NewOrder_Finish \/ CancelOrder_Finish \/ OrderStatus_Finish
    \/ AccountOrderStatus_Finish \/ StockOrderStatus_Finish
    \/ Return
    \/ Set_Call \/ Set_Lock \/ Set_Write \/ Set_Unlock

Spec == Init /\ [][Next]_vars

\* -------------------------------------------------------- example program
\* What an endpoint called before NewOrder may record.
PreErrs == {Nil, TransportErr, SyntaxErr, apiError("e1", 401)}

\* Heartbeat, VenueHeartbeat, AvailableStocks, Orderbook, Quote: the call
\* records its first error, if any, and returns.
PreCall(from, to) ==
    /\ Running /\ mpc = from
    /\ \E e \in PreErrs : err' = setErr(err, e)
    /\ mpc' = to

InitMain ==
    /\ cfg = [account |-> "EXB123456", venue |-> "TESTEX", symbol |-> "FOOBAR",
              h |-> apiKey]
    /\ cfgVer = 0
    /\ mu = [readers |-> 0, writer |-> FALSE, pending |-> FALSE]
    /\ err = Nil
    /\ pc = "idle"
    /\ call = NoCall
    /\ wpc = "idle"
    /\ wjob = <<"h", apiKey>>
    /\ mpc = "SetAPIKey"
    /\ main = NoMain

Main_SetAPIKey ==
    /\ Running /\ mpc = "SetAPIKey"
    /\ cfg' = [cfg EXCEPT !.h = apiKey]
    /\ cfgVer' = cfgVer + 1
    /\ mpc' = "Heartbeat"
    /\ UNCHANGED <<mu, err, pc, call, wpc, wjob, main>>

Main_Heartbeat ==
    /\ PreCall("Heartbeat", "VenueHeartbeat")
    /\ UNCHANGED <<cfg, cfgVer, mu, pc, call, wpc, wjob, main>>

Main_VenueHeartbeat ==
    /\ PreCall("VenueHeartbeat", "AvailableStocks")
    /\ UNCHANGED <<cfg, cfgVer, mu, pc, call, wpc, wjob, main>>

Main_AvailableStocks ==
    /\ PreCall("AvailableStocks", "Orderbook")
    /\ UNCHANGED <<cfg, cfgVer, mu, pc, call, wpc, wjob, main>>

Main_Orderbook ==
    /\ PreCall("Orderbook", "Quote")
    /\ UNCHANGED <<cfg, cfgVer, mu, pc, call, wpc, wjob, main>>

Main_Quote ==
    /\ PreCall("Quote", "NewOrder")
    /\ \E p \in 0..MaxPrice : main' = [main EXCEPT !.lastPrice = p]
    /\ UNCHANGED <<cfg, cfgVer, mu, pc, call, wpc, wjob>>

\* order := i.NewOrder(quote.LastPrice, 100, api.Buy, api.Limit)
Main_NewOrder ==
    /\ Running /\ mpc = "NewOrder" /\ pc = "idle"
    /\ call' = NewCall("NewOrder", 0, main.lastPrice, 100, Buy, Limit)
    /\ pc' = "rlock"
    /\ main' = [main EXCEPT !.calls = Append(@, <<"NewOrder", 0>>)]
    /\ mpc' = "check"
    /\ UNCHANGED <<cfg, cfgVer, mu, err, wpc, wjob>>

\* Faulty variant of Main_Check: the follow-up calls are made on an error.
Main_Check_inverted ==
    /\ Running /\ mpc = "check" /\ pc = "ret"
    /\ main' = [main EXCEPT !.order = call.v, !.seen = err]
    /\ mpc' = IF err # Nil THEN "OrderStatus" ELSE "exit"
    /\ pc' = "idle"
    /\ UNCHANGED <<cfg, cfgVer, mu, err, call, wpc, wjob>>

\* NewOrder has returned: if i.Err() != nil { print } else { ... }
Main_Check ==
    /\ Running /\ mpc = "check" /\ pc = "ret"
    /\ main' = [main EXCEPT !.order = call.v, !.seen = err]
    /\ mpc' = IF err # Nil THEN "exit" ELSE "OrderStatus"
    /\ pc' = "idle"
    /\ UNCHANGED <<cfg, cfgVer, mu, err, call, wpc, wjob>>

\* i.OrderStatus(order.ID)
Main_OrderStatus ==
    /\ Running /\ mpc = "OrderStatus" /\ pc = "idle"
    /\ call' = NewCall("OrderStatus", main.order.ID, 0, 0, Buy, Limit)
    /\ pc' = "rlock"
    /\ main' = [main EXCEPT !.calls = Append(@, <<"OrderStatus", main.order.ID>>)]
    /\ mpc' = "printStatus"
    /\ UNCHANGED <<cfg, cfgVer, mu, err, wpc, wjob>>

\* prettyPrint("status of order:", ...)
Main_PrintStatus ==
    /\ Running /\ mpc = "printStatus" /\ pc = "ret"
    /\ mpc' = "CancelOrder"
    /\ pc' = "idle"
    /\ UNCHANGED <<cfg, cfgVer, mu, err, call, wpc, wjob, main>>

\* i.CancelOrder(order.ID)
Main_CancelOrder ==
    /\ Running /\ mpc = "CancelOrder" /\ pc = "idle"
    /\ call' = NewCall("CancelOrder", main.order.ID, 0, 0, Buy, Limit)
    /\ pc' = "rlock"
    /\ main' = [main EXCEPT !.calls = Append(@, <<"CancelOrder", main.order.ID>>)]
    /\ mpc' = "printCancel"
    /\ UNCHANGED <<cfg, cfgVer, mu, err, wpc, wjob>>

\* prettyPrint("canceled order:", ...), then main returns.
Main_PrintCancel ==
    /\ Running /\ mpc = "printCancel" /\ pc = "ret"
    /\ mpc' = "exit"
    /\ pc' = "idle"
    /\ UNCHANGED <<cfg, cfgVer, mu, err, call, wpc, wjob, main>>

NextMain ==
    \/ Main_SetAPIKey \/ Main_Heartbeat \/ Main_VenueHeartbeat
    \/ Main_AvailableStocks \/ Main_Orderbook \/ Main_Quote
    \/ Main_NewOrder \/ Main_Check
    \/ Main_OrderStatus \/ Main_PrintStatus
    \/ Main_CancelOrder \/ Main_PrintCancel
    \/ RLock \/ ReadField \/ Marshal \/ RUnlock \/ SetHeader \/ Do
    \/ NewOrder_Finish \/ OrderStatus_Finish \/ CancelOrder_Finish

SpecMain == InitMain /\ [][NextMain]_vars

\* ================================================================ claims
\* The field whose type decides whether a 200 body decodes for an operation.
TypedField(op) ==
    IF op \in {"AccountOrderStatus", "StockOrderStatus"} THEN "orders" ELSE "id"

\* The call got a 200 response and its body decodes.
Succeeded(c) ==
    /\ c.res.present /\ c.httpErr = Nil /\ c.res.StatusCode = 200
    /\ DecodeErr(c.res.Body, TypedField(c.op)) = Nil

\* The first non-nil error of a sequence, Nil when there is none.
RECURSIVE FirstNonNil(_)
FirstNonNil(es) ==
    IF es = <<>> THEN Nil
    ELSE IF Head(es) # Nil THEN Head(es) ELSE FirstNonNil(Tail(es))

NonNil(es) == {k \in DOMAIN es : es[k] # Nil}

Returned == pc = "ret"
Unlocked == {"hdr", "do", "resp", "ret"}

\* C1: once the accumulator is non-nil no step of any operation resets it to
\* nil, and a call that succeeds (200, body decodes) returns with the
\* accumulator exactly as it was when the call began.
C1_StickyError ==
    [][ /\ (err # Nil => err' # Nil)
        /\ (pc = "resp" /\ pc' = "ret" /\ Succeeded(call) /\ call.err0 # Nil
              => err' = call.err0) ]_vars

C1_Witness == Returned /\ Succeeded(call) /\ call.err0 # Nil /\ err = call.err0

\* C2: during one call the accumulator changes at most once, and a call that
\* began with a nil accumulator ends with the first non-nil error it passed
\* to setErr, also when it passed several.
C2_FirstErrorOnly ==
    /\ call.nchg <= 1
    /\ (pc \in {"ret", "panic"} /\ call.err0 = Nil
          => err = FirstNonNil(call.passed))

C2_Witness ==
    /\ Returned /\ call.err0 = Nil /\ call.res.StatusCode = 401
    /\ Cardinality(NonNil(call.passed)) >= 2
    /\ err.kind = "api" /\ call.nchg = 1

\* C3 as stated: after a call that got a non-200 response and began with a
\* nil accumulator, the accumulator is the API error built from the venue's
\* message and the status.
C3_Original ==
    (Returned /\ call.res.present /\ call.res.StatusCode # 200 /\ call.err0 = Nil)
      => err = apiError(DecodeErrorResult(call.res.Body), call.res.StatusCode)

\* C3: after a call for which Do returned a non-200 response and no error,
\* and which began with a nil accumulator, the accumulator is the API error
\* built from the venue's message and the status.
C3_ApiErrorRecorded ==
    (Returned /\ call.res.present /\ call.httpErr = Nil
       /\ call.res.StatusCode # 200 /\ call.err0 = Nil)
      => err = apiError(DecodeErrorResult(call.res.Body), call.res.StatusCode)

C3_Witness ==
    /\ Returned /\ call.httpErr = Nil /\ call.res.StatusCode = 401
    /\ call.res.Body = ErrorBody /\ call.err0 = Nil
    /\ err = [kind |-> "api", msg |-> "e1", status |-> 401]

\* C4: when Do returns a transport error and no response, the operation
\* records the error and returns normally with a zero result; it does not
\* panic.
C4_TransportErrorReturns ==
    (pc \in {"ret", "panic"} /\ ~call.res.present /\ call.httpErr # Nil)
      => /\ pc = "ret"
         /\ err # Nil
         /\ call.v = ZeroOrder /\ call.orders = <<>>

\* C5: a call that got a non-200 response returns the zero value: a zero
\* Order, or an empty order list.
C5_ZeroOnFailure ==
    (Returned /\ call.res.present /\ call.res.StatusCode # 200)
      => call.v = ZeroOrder /\ call.orders = <<>>

C5_Witness ==
    /\ Returned /\ call.op = "OrderStatus" /\ call.res.StatusCode = 401
    /\ call.res.Body = OrderBody(1) /\ call.v = ZeroOrder

C7_ConfigReadsUnderRLock ==
    (pc \in {"marshal", "hdr"}
       \/ (pc = "read" /\ Len(call.got) < Len(Reads(call.op))))
      => mu.readers > 0

\* C8: a call that got a 200 response whose body fails to decode, and that
\* began with a nil accumulator, ends with the decode error in the
\* accumulator, for the list operations as for the others.
C8_DecodeErrorRecorded ==
    (Returned /\ call.res.present /\ call.httpErr = Nil
       /\ call.res.StatusCode = 200 /\ call.err0 = Nil
       /\ DecodeErr(call.res.Body, TypedField(call.op)) # Nil)
      => err = DecodeErr(call.res.Body, TypedField(call.op))

\* C9: every configuration value an operation has read for one request comes
\* from the same configuration version, and the venue and symbol in
\* NewOrder's body equal those in its URL.
C9_ConsistentSnapshot ==
    \A a, b \in DOMAIN call.got :
       /\ call.got[a].ver = call.got[b].ver
       /\ call.got[a].field = call.got[b].field
             => call.got[a].val = call.got[b].val

C9_Witness ==
    /\ pc = "read" /\ call.op = "NewOrder" /\ Len(call.got) = 5
    /\ wpc = "lock" /\ wjob[1] = "venue" /\ wjob[2] # cfg.venue

\* C10: main calls OrderStatus and CancelOrder only after NewOrder returned
\* with Err() nil, in that order and with the returned order's ID; when
\* Err() is non-nil it calls neither.
C10_FollowUpsOnlyOnSuccess ==
    /\ \A k \in DOMAIN main.calls :
          main.calls[k] =
             << <<"NewOrder", 0>>, <<"OrderStatus", main.order.ID>>,
                <<"CancelOrder", main.order.ID>> >>[k]
    /\ Len(main.calls) <= 3
    /\ Len(main.calls) >= 2 => main.seen = Nil /\ mpc \notin {"NewOrder", "check"}
    /\ (mpc = "exit" /\ main.seen # Nil) => Len(main.calls) = 1

C10_Witness ==
    /\ mpc = "exit" /\ Len(main.calls) = 3 /\ main.order.ID = 1
    /\ main.calls[3] = <<"CancelOrder", 1>>

====
